---- MODULE Spec2Model ----
(***************************************************************************)
(* Organization / membership / invitation subsystem of the dashboard       *)
(* backend (backend/app/routers/organization.py, backend/app/deps/rbac.py, *)
(* backend/app/models/organization.py).                                    *)
(*                                                                         *)
(* The relational store is modelled by three variables: the number of     *)
(* organization rows, the memberships table (a bag of rows: the surrogate  *)
(* key is abstracted, so two rows with equal columns are two copies) and   *)
(* the invitations table (a sequence; the index of a row is its id, and    *)
(* its token is whatever uuid4() returned, any value of Tokens).           *)
(*                                                                         *)
(* Every request handler is split the way the code runs it: the SELECTs    *)
(* and the checks on their results produce a plan (the result the caller   *)
(* gets and the write the session holds), and db.commit() applies the      *)
(* write to the store.  Spec runs each handler as one step (serialised     *)
(* requests); SpecConc lets two workers interleave between the reads and   *)
(* the commit, and counts in started the requests that got that far;       *)
(* SpecEffects runs each request to its return statement and keeps in      *)
(* effects the response and what was handed to the activity log and the    *)
(* mailer.                                                                 *)
(***************************************************************************)
EXTENDS Integers, Sequences, FiniteSets, Bags, TLC

\* ------------------------------------------------------------------ bounds
MaxOrgs == 1
MaxInvitations == 2
MaxTicks == 2
\* the commits of other requests a request may see between its reads and its own commit
MaxOvertakes == 1
\* the requests of a run of SpecConc or of SpecEffects
MaxRequests == 4

\* ------------------------------------------------------- program constants
\* timedelta(days=7): the clock counts days
InvitationDays == 7

\* ------------------------------------------------------------ input domains
\* the rows of the users table, and a user id no row has
Users == {1, 2}
UserEmail == (1 :> "a@x.com") @@ (2 :> "b@x.com")
UserIds == Users \cup {3}
InviteEmails == {UserEmail[u] : u \in Users} \cup {"new@x.com"}
Roles == {"owner", "admin", "member"}
PayloadRoles == Roles \cup {"guest"}
\* path parameter org_id (an organization that is not created yet has no row)
OrgIds == 1..MaxOrgs
\* the values of uuid.uuid4(), and of the payload token
Tokens == 1..MaxInvitations
Procs == {1, 2}
\* one step of the clock: a whole invitation lifetime, so that a pending
\* invitation is seen before, exactly at and after its expiry
ClockStep == InvitationDays
\* expires_at is nullable
NoExpiry == 0 - 1

VARIABLES norgs, memberships, invitations, now, inflight, started, effects

vars == <<norgs, memberships, invitations, now, inflight, started, effects>>
store == <<norgs, memberships, invitations>>

\* ------------------------------------------------------------ store queries
MembershipTable == BagToSet(memberships)

First(S) == CHOOSE x \in S : TRUE

MembershipRows(org, user) ==
    {m \in MembershipTable : m.org_id = org /\ m.user_id = user}

OtherOwners_NotLeaving(org, user) ==
    {m \in MembershipTable :
        /\ m.org_id = org
        /\ m.role = "owner"
        /\ m.user_id # user
        /\ \A q \in DOMAIN inflight :
               ~(/\ inflight[q].write.kind \in {"set_role", "delete"}
                 /\ inflight[q].write.row = m)}

OtherOwners(org, user) ==
    {m \in MembershipTable : m.org_id = org /\ m.role = "owner" /\ m.user_id # user}

UsersWithEmail(email) == {u \in Users : UserEmail[u] = email}

ExistingMemberByEmail_Unchecked(org, email) == {}

ExistingMemberByEmail(org, email) ==
    {m \in MembershipTable : m.org_id = org /\ m.user_id \in UsersWithEmail(email)}

\* Invitation.token == payload.token
InvitationsByToken(token) ==
    {id \in 1..Len(invitations) : invitations[id].token = token}

PendingInvites_AnyIsNew(org, email) == {}

\* existing_invite: the pending invitations of (org, email), expired or not
PendingInvites_SeesUncommitted(org, email) ==
    {i \in 1..Len(invitations) :
        /\ invitations[i].org_id = org
        /\ invitations[i].email = email
        /\ invitations[i].status = "pending"}
    \cup {0 - q : q \in {w \in DOMAIN inflight :
                            /\ inflight[w].write.kind = "add_invitation"
                            /\ inflight[w].write.row.org_id = org
                            /\ inflight[w].write.row.email = email}}

PendingInvites(org, email) ==
    {i \in 1..Len(invitations) :
        /\ invitations[i].org_id = org
        /\ invitations[i].email = email
        /\ invitations[i].status = "pending"}

OwnerMembership_AsAdmin(org, user) == [org_id |-> org, user_id |-> user, role |-> "admin"]

OwnerMembership(org, user) == [org_id |-> org, user_id |-> user, role |-> "owner"]

NoWrite == [kind |-> "none"]
Reject(error) == [result |-> error, detail |-> "", write |-> NoWrite]

\* the status_code of each result
StatusCode(result) ==
    CASE result \in {"NotAMember", "InsufficientRole", "Forbidden", "EmailMismatch"} -> 403
      [] result \in {"OrgNotFound", "NotFound"} -> 404
      [] result \in {"InvalidRole", "AlreadyMember", "DuplicateInvitation",
                     "InvalidState", "Expired", "SoleOwner"} -> 400
      [] result \in {"Created", "Joined"} -> 201
      [] result = "Removed" -> 204
      [] result = "InternalError" -> 500
      [] OTHER -> 200

\* -------------------------------------------------- authorization guard
RequireRole_AnyMember(org, user, allowed_roles) ==
    IF MembershipRows(org, user) = {}
    THEN [error |-> "NotAMember", role |-> ""]
    ELSE [error |-> "", role |-> First(MembershipRows(org, user)).role]

RequireRole_NoRowNeeded(org, user, allowed_roles) ==
    IF MembershipRows(org, user) = {}
    THEN [error |-> "", role |-> "admin"]
    ELSE LET membership == First(MembershipRows(org, user)) IN
         IF membership.role \notin allowed_roles
         THEN [error |-> "InsufficientRole", role |-> membership.role]
         ELSE [error |-> "", role |-> membership.role]

\* deps/rbac.py dependency(): the membership of (org, user), or a 403
RequireRole(org, user, allowed_roles) ==
    IF MembershipRows(org, user) = {}
    THEN [error |-> "NotAMember", role |-> ""]
    ELSE LET membership == First(MembershipRows(org, user)) IN
         IF membership.role \notin allowed_roles
         THEN [error |-> "InsufficientRole", role |-> membership.role]
         ELSE [error |-> "", role |-> membership.role]

\* ------------------------------------------------- checks of the handlers
ValidRole_Anything(role) == TRUE

ValidRole(role) == role \in {"owner", "admin", "member"}

OwnerRoleDenied_Unchecked(role, acting_role) == FALSE

OwnerRoleDenied_AdminPasses(role, acting_role) ==
    role = "owner" /\ acting_role \notin {"owner", "admin"}

\* "Only owner can invite as owner" / "Only owner can assign owner role"
OwnerRoleDenied(role, acting_role) == role = "owner" /\ acting_role # "owner"

RemoveOwnerDenied_Unchecked(target_role, acting_role) == FALSE

\* "Only owner can remove owner"
RemoveOwnerDenied(target_role, acting_role) ==
    target_role = "owner" /\ acting_role # "owner"

OnlyOwner_Unchecked(org, target, acting_user) == FALSE

\* "Prevent changing own role / removing yourself if you're the only owner"
OnlyOwner(org, target, acting_user) ==
    /\ target.user_id = acting_user
    /\ target.role = "owner"
    /\ OtherOwners(org, acting_user) = {}

NotPending_OnlyExpired(invitation) == invitation.status = "expired"

\* invitation.status != "pending"
NotPending(invitation) == invitation.status # "pending"

EmailDiffers_Unchecked(invitation, u) == FALSE

\* invitation.email != current_user.email
EmailDiffers(invitation, u) == invitation.email # UserEmail[u]

InvitedMembership_AsMember(invitation, u) ==
    [org_id |-> invitation.org_id, user_id |-> u, role |-> "member"]

\* Membership(org_id=invitation.org_id, user_id=current_user.id, role=invitation.role)
InvitedMembership(invitation, u) ==
    [org_id |-> invitation.org_id, user_id |-> u, role |-> invitation.role]

MarkExpired_NotCommitted(id) == [kind |-> "none"]

\* invitation.status = "expired"; db.commit()
MarkExpired(id) == [kind |-> "set_status", id |-> id, status |-> "expired"]

\* invitation.expires_at and invitation.expires_at < datetime.now(timezone.utc)
IsExpired(expires_at, t) == expires_at # NoExpiry /\ expires_at < t

NewInvitation_ExpiresAtOnce(org, email, role, token, t) ==
    [org_id |-> org, email |-> email, role |-> role, token |-> token,
     status |-> "pending", expires_at |-> t]

\* Invitation(org_id, email, role, token, status="pending", expires_at=now + 7 days)
NewInvitation(org, email, role, token, t) ==
    [org_id |-> org, email |-> email, role |-> role, token |-> token,
     status |-> "pending", expires_at |-> t + InvitationDays]

\* ------------------------------------------------- plans of the handlers
\* create_invitation up to db.add(invitation); uuid is what uuid4() returns
CreateInvitationPlan(u, org, email, role, uuid) ==
    LET ctx == RequireRole(org, u, {"owner", "admin"}) IN
    IF ctx.error # "" THEN Reject(ctx.error)
    ELSE IF org \notin 1..norgs THEN Reject("OrgNotFound")
    ELSE IF ~ValidRole(role) THEN Reject("InvalidRole")
    ELSE IF OwnerRoleDenied(role, ctx.role) THEN Reject("Forbidden")
    ELSE IF ExistingMemberByEmail(org, email) # {} THEN Reject("AlreadyMember")
    ELSE IF PendingInvites(org, email) # {} THEN Reject("DuplicateInvitation")
    ELSE [result |-> "Created", detail |-> "",
          write |-> [kind |-> "add_invitation",
                     row |-> NewInvitation(org, email, role, uuid, now)]]

\* accept_invitation up to the db.commit() of the branch taken
AcceptInvitationPlan_MemberJoinsAgain(u, token) ==
    IF InvitationsByToken(token) = {} THEN Reject("NotFound")
    ELSE LET id == First(InvitationsByToken(token))
             invitation == invitations[id] IN
    IF NotPending(invitation)
    THEN [result |-> "InvalidState", detail |-> invitation.status, write |-> NoWrite]
    ELSE IF EmailDiffers(invitation, u) THEN Reject("EmailMismatch")
    ELSE IF IsExpired(invitation.expires_at, now)
    THEN [result |-> "Expired", detail |-> "", write |-> MarkExpired(id)]
    ELSE [result |-> "Joined", detail |-> "",
          write |-> [kind |-> "join", id |-> id,
                     row |-> InvitedMembership(invitation, u)]]

AcceptInvitationPlan(u, token) ==
    IF InvitationsByToken(token) = {} THEN Reject("NotFound")
    ELSE LET id == First(InvitationsByToken(token))
             invitation == invitations[id] IN
    IF NotPending(invitation)
    THEN [result |-> "InvalidState", detail |-> invitation.status, write |-> NoWrite]
    ELSE IF EmailDiffers(invitation, u) THEN Reject("EmailMismatch")
    ELSE IF IsExpired(invitation.expires_at, now)
    THEN [result |-> "Expired", detail |-> "", write |-> MarkExpired(id)]
    ELSE IF MembershipRows(invitation.org_id, u) # {}
    THEN [result |-> "AlreadyMember", detail |-> "",
          write |-> [kind |-> "set_status", id |-> id, status |-> "accepted"]]
    ELSE [result |-> "Joined", detail |-> "",
          write |-> [kind |-> "join", id |-> id,
                     row |-> InvitedMembership(invitation, u)]]

\* list_members: the dependency decides
ListPendingInvitationsPlan_WithExpired(u) ==
    [result |-> "Listed", detail |-> "", write |-> NoWrite,
     rows |-> {id \in 1..Len(invitations) :
                  /\ invitations[id].email = UserEmail[u]
                  /\ invitations[id].status = "pending"}]

\* GET /orgs/invitations/pending: one SELECT, nothing written
ListPendingInvitationsPlan(u) ==
    [result |-> "Listed", detail |-> "", write |-> NoWrite,
     rows |-> {id \in 1..Len(invitations) :
                  /\ invitations[id].email = UserEmail[u]
                  /\ invitations[id].status = "pending"
                  /\ \/ invitations[id].expires_at = NoExpiry
                     \/ invitations[id].expires_at > now}]

ListMembersPlan(u, org) ==
    LET ctx == RequireRole(org, u, {"owner", "admin", "member"}) IN
    IF ctx.error # "" THEN Reject(ctx.error)
    ELSE [result |-> "Listed", detail |-> "", write |-> NoWrite]

\* update_member_role up to db.commit()
UpdateMemberRolePlan(u, org, user_id, role) ==
    LET ctx == RequireRole(org, u, {"owner", "admin"}) IN
    IF ctx.error # "" THEN Reject(ctx.error)
    ELSE IF ~ValidRole(role) THEN Reject("InvalidRole")
    ELSE IF MembershipRows(org, user_id) = {} THEN Reject("NotFound")
    ELSE LET target_membership == First(MembershipRows(org, user_id)) IN
    IF OwnerRoleDenied(role, ctx.role) THEN Reject("Forbidden")
    ELSE IF OnlyOwner(org, target_membership, u) THEN Reject("SoleOwner")
    ELSE [result |-> "Updated", detail |-> "",
          write |-> [kind |-> "set_role", row |-> target_membership, role |-> role,
                     stale |-> FALSE]]

\* remove_member up to db.commit()
RemoveMemberPlan(u, org, user_id) ==
    LET ctx == RequireRole(org, u, {"owner", "admin"}) IN
    IF ctx.error # "" THEN Reject(ctx.error)
    ELSE IF MembershipRows(org, user_id) = {} THEN Reject("NotFound")
    ELSE LET target_membership == First(MembershipRows(org, user_id)) IN
    IF RemoveOwnerDenied(target_membership.role, ctx.role) THEN Reject("Forbidden")
    ELSE IF OnlyOwner(org, target_membership, u) THEN Reject("SoleOwner")
    ELSE [result |-> "Removed", detail |-> "",
          write |-> [kind |-> "delete", row |-> target_membership, stale |-> FALSE]]

\* ------------------------------------------------------------ db.commit()
Idle == [result |-> "", detail |-> "", write |-> NoWrite, seen |-> 0, user |-> 0]

\* uq_membership_org_user: UniqueConstraint("org_id", "user_id")
UniqueViolation_Missing(row) == FALSE

UniqueViolation(row) == MembershipRows(row.org_id, row.user_id) # {}

TokenViolation_Missing(row) == FALSE

\* Invitation.token: unique=True
TokenViolation(row) == InvitationsByToken(row.token) # {}

\* the row a session loaded is gone: it was deleted after the SELECT
RowGone(write) == write.stale \/ MembershipRows(write.row.org_id, write.row.user_id) = {}

\* the flush of the session fails: nothing of the transaction is committed
\* (IntegrityError on the INSERT; StaleDataError on the UPDATE, or
\* db.refresh() of a row that is gone)
FlushFails(write) ==
    \/ write.kind = "join" /\ UniqueViolation(write.row)
    \/ write.kind = "add_invitation" /\ TokenViolation(write.row)
    \/ write.kind = "set_role" /\ RowGone(write)

MembershipsAfter(write) ==
    IF FlushFails(write) THEN memberships
    ELSE IF write.kind = "join" THEN memberships (+) SetToBag({write.row})
    ELSE IF write.kind = "set_role" /\ write.role # write.row.role
    THEN LET current == First(MembershipRows(write.row.org_id, write.row.user_id)) IN
         (memberships (-) SetToBag({current}))
             (+) SetToBag({[current EXCEPT !.role = write.role]})
    ELSE IF write.kind = "delete" /\ ~RowGone(write)
    THEN LET current == First(MembershipRows(write.row.org_id, write.row.user_id)) IN
         memberships (-) SetToBag({current})
    ELSE memberships

InvitationsAfter_JoinLeavesPending(write) ==
    IF FlushFails(write) THEN invitations
    ELSE IF write.kind = "add_invitation" THEN Append(invitations, write.row)
    ELSE IF write.kind = "set_status"
    THEN [invitations EXCEPT ![write.id].status = write.status]
    ELSE invitations

InvitationsAfter(write) ==
    IF FlushFails(write) THEN invitations
    ELSE IF write.kind = "add_invitation" THEN Append(invitations, write.row)
    ELSE IF write.kind = "set_status"
    THEN [invitations EXCEPT ![write.id].status = write.status]
    ELSE IF write.kind = "join"
    THEN [invitations EXCEPT ![write.id].status = "accepted"]
    ELSE invitations

ResultAfter(plan) ==
    IF FlushFails(plan.write) THEN "InternalError" ELSE plan.result

\* a committed DELETE takes the row's primary key away from every session
\* that still holds the row
MarkStale(held, write) ==
    IF /\ write.kind = "delete"
       /\ ~RowGone(write)
       /\ held.write.kind \in {"set_role", "delete"}
       /\ held.write.row.org_id = write.row.org_id
       /\ held.write.row.user_id = write.row.user_id
    THEN [held EXCEPT !.write.stale = TRUE]
    ELSE held

\* a held plan has seen one more commit
Overtaken(held) == IF held = Idle THEN Idle ELSE [held EXCEPT !.seen = held.seen + 1]

Flush(p, plan) ==
    /\ plan.write.kind = "add_invitation" => Len(invitations) < MaxInvitations
    /\ memberships' = MembershipsAfter(plan.write)
    /\ invitations' = InvitationsAfter(plan.write)
    /\ inflight' = [q \in Procs |->
                       IF q = p THEN Idle
                       ELSE Overtaken(MarkStale(inflight[q], plan.write))]
    /\ UNCHANGED <<norgs, now>>

Commit(p, plan) == Flush(p, plan) /\ UNCHANGED <<started, effects>>

\* ------------------------------------------------- after the db.commit()
\* what the caller and the collaborators get from a request: the response,
\* the activity-log rows written and the e-mails scheduled
NoEffects == [response |-> "", events |-> <<>>, mails |-> 0]

\* the calls that follow the commit of the primary transaction
CreateOrganizationCalls == <<"organization.create">>
CreateInvitationCalls_WhateverTheResult(result) == <<"invitation.create", "mail">>

CreateInvitationCalls(result) ==
    IF result = "Created" THEN <<"invitation.create", "mail">> ELSE <<>>
AcceptInvitationCalls(result) ==
    IF result = "Joined" THEN <<"invitation.accept", "membership.create">> ELSE <<>>

\* the calls one after the other; fails holds the positions of the calls
\* that raise.  log_activity() is called bare, so the handler ends where it
\* raises; send_invitation_email() is called inside try/except
RECURSIVE RunCalls(_, _, _, _)
RunCalls(calls, i, fails, acc) ==
    IF i > Len(calls) THEN acc
    ELSE IF calls[i] = "mail"
    THEN RunCalls(calls, i + 1, fails,
                  IF i \in fails THEN acc ELSE [acc EXCEPT !.mails = @ + 1])
    ELSE IF i \in fails THEN [acc EXCEPT !.response = "InternalError"]
    ELSE RunCalls(calls, i + 1, fails, [acc EXCEPT !.events = Append(@, calls[i])])

AfterCommit(result, calls, fails) ==
    RunCalls(calls, 1, fails, [response |-> result, events |-> <<>>, mails |-> 0])

\* ---------------------------------------------------------------- actions
Init ==
    /\ norgs = 0
    /\ memberships = EmptyBag
    /\ invitations = <<>>
    /\ now = 0
    /\ inflight = [p \in Procs |-> Idle]
    /\ started = 0
    /\ effects = NoEffects

\* the clock of datetime.now(timezone.utc)
Tick ==
    /\ now < MaxTicks * ClockStep
    /\ now' = now + ClockStep
    /\ UNCHANGED <<store, inflight, started, effects>>

InsertOrganization(u) ==
    /\ norgs < MaxOrgs
    /\ norgs' = norgs + 1
    /\ memberships' = memberships (+) SetToBag({OwnerMembership(norgs + 1, u)})
    /\ UNCHANGED <<invitations, now, inflight>>

CreateOrganization(u) == InsertOrganization(u) /\ UNCHANGED <<started, effects>>

\* the handlers, each run from its first SELECT to its commit in one step
CreateInvitation(u, org, email, role, uuid) ==
    Commit(0, CreateInvitationPlan(u, org, email, role, uuid))

AcceptInvitation(u, token) ==
    Commit(0, AcceptInvitationPlan(u, token))

ListPendingInvitations(u) == Commit(0, ListPendingInvitationsPlan(u))

ListMembers(u, org) ==
    Commit(0, ListMembersPlan(u, org))

UpdateMemberRole(u, org, user_id, role) ==
    Commit(0, UpdateMemberRolePlan(u, org, user_id, role))

RemoveMember(u, org, user_id) ==
    Commit(0, RemoveMemberPlan(u, org, user_id))

Next ==
    \/ Tick
    \/ \E u \in Users : CreateOrganization(u)
    \/ \E u \in Users, org \in OrgIds, email \in InviteEmails, role \in PayloadRoles,
          uuid \in Tokens : CreateInvitation(u, org, email, role, uuid)
    \/ \E u \in Users, token \in Tokens : AcceptInvitation(u, token)
    \/ \E u \in Users : ListPendingInvitations(u)
    \/ \E u \in Users, org \in OrgIds : ListMembers(u, org)
    \/ \E u \in Users, org \in OrgIds, user_id \in UserIds, role \in PayloadRoles :
           UpdateMemberRole(u, org, user_id, role)
    \/ \E u \in Users, org \in OrgIds, user_id \in UserIds : RemoveMember(u, org, user_id)

Spec == Init /\ [][Next]_vars

\* ------------------------------------------------- interleaved requests
\* Two workers, each with a session of its own.  A request that passes its
\* checks holds its plan from the last SELECT until db.commit(); a request
\* that is rejected ends where it is rejected and leaves nothing behind.
Begin(p, u, plan) ==
    /\ inflight[p] = Idle
    /\ \A q \in Procs : q < p => inflight[q] # Idle
    /\ \A q \in Procs : inflight[q].seen < MaxOvertakes
    /\ plan.write # NoWrite
    /\ started < MaxRequests
    /\ started' = started + 1
    /\ plan.write.kind = "add_invitation" =>
           Len(invitations) + Cardinality({q \in Procs :
               inflight[q].write.kind = "add_invitation"}) < MaxInvitations
    /\ inflight' = [inflight EXCEPT ![p] =
                         [result |-> plan.result, detail |-> plan.detail,
                          write |-> plan.write, seen |-> 0, user |-> u]]
    /\ UNCHANGED <<store, now, effects>>

BeginCreateInvitation(p, u, org, email, role, uuid) ==
    Begin(p, u, CreateInvitationPlan(u, org, email, role, uuid))

BeginAcceptInvitation(p, u, token) ==
    Begin(p, u, AcceptInvitationPlan(u, token))

BeginUpdateMemberRole(p, u, org, user_id, role) ==
    Begin(p, u, UpdateMemberRolePlan(u, org, user_id, role))

BeginRemoveMember(p, u, org, user_id) ==
    Begin(p, u, RemoveMemberPlan(u, org, user_id))

CommitRequest(p) ==
    /\ inflight[p] # Idle
    /\ \A q \in Procs \ {p} : inflight[q] = Idle \/ inflight[q].seen < MaxOvertakes
    /\ Commit(p, inflight[p])

NextConc ==
    \/ Tick
    \/ \E u \in Users : CreateOrganization(u)
    \/ \E p \in Procs, u \in Users, org \in OrgIds, email \in InviteEmails,
          role \in PayloadRoles, uuid \in Tokens :
              BeginCreateInvitation(p, u, org, email, role, uuid)
    \/ \E p \in Procs, u \in Users, token \in Tokens : BeginAcceptInvitation(p, u, token)
    \/ \E p \in Procs, u \in Users, org \in OrgIds, user_id \in UserIds,
          role \in PayloadRoles : BeginUpdateMemberRole(p, u, org, user_id, role)
    \/ \E p \in Procs, u \in Users, org \in OrgIds, user_id \in UserIds :
          BeginRemoveMember(p, u, org, user_id)
    \/ \E p \in Procs : CommitRequest(p)

SpecConc == Init /\ [][NextConc]_vars

\* -------------------------------------- requests up to their return
\* Serialised requests again, each run to its return statement: effects
\* keeps what the latest request gave back and handed to the activity log
\* and the mailer, started counts the requests.  Which of the calls after
\* the commit raise is up to the collaborators.
CallFailures == SUBSET {1, 2}

Return(plan, calls, fails) ==
    /\ started < MaxRequests
    /\ started' = started + 1
    /\ Flush(0, plan)
    /\ effects' = AfterCommit(ResultAfter(plan), calls, fails)

CreateOrganizationReturn(u, fails) ==
    /\ started < MaxRequests
    /\ started' = started + 1
    /\ InsertOrganization(u)
    /\ effects' = AfterCommit("Created", CreateOrganizationCalls, fails)

CreateInvitationReturn(u, org, email, role, uuid, fails) ==
    LET plan == CreateInvitationPlan(u, org, email, role, uuid) IN
    Return(plan, CreateInvitationCalls(ResultAfter(plan)), fails)

AcceptInvitationReturn(u, token, fails) ==
    LET plan == AcceptInvitationPlan(u, token) IN
    Return(plan, AcceptInvitationCalls(ResultAfter(plan)), fails)

ListPendingInvitationsReturn(u) == Return(ListPendingInvitationsPlan(u), <<>>, {})

ListMembersReturn(u, org) == Return(ListMembersPlan(u, org), <<>>, {})

UpdateMemberRoleReturn(u, org, user_id, role) ==
    Return(UpdateMemberRolePlan(u, org, user_id, role), <<>>, {})

RemoveMemberReturn(u, org, user_id) ==
    Return(RemoveMemberPlan(u, org, user_id), <<>>, {})

NextEffects ==
    \/ Tick
    \/ \E u \in Users, fails \in CallFailures : CreateOrganizationReturn(u, fails)
    \/ \E u \in Users, org \in OrgIds, email \in InviteEmails, role \in PayloadRoles,
          uuid \in Tokens, fails \in CallFailures :
              CreateInvitationReturn(u, org, email, role, uuid, fails)
    \/ \E u \in Users, token \in Tokens, fails \in CallFailures :
           AcceptInvitationReturn(u, token, fails)
    \/ \E u \in Users : ListPendingInvitationsReturn(u)
    \/ \E u \in Users, org \in OrgIds : ListMembersReturn(u, org)
    \/ \E u \in Users, org \in OrgIds, user_id \in UserIds, role \in PayloadRoles :
           UpdateMemberRoleReturn(u, org, user_id, role)
    \/ \E u \in Users, org \in OrgIds, user_id \in UserIds : RemoveMemberReturn(u, org, user_id)

SpecEffects == Init /\ [][NextEffects]_vars
\* ------------------------------------------------------------------ claims
\* the roles user u holds in organization org, and the owners of org
RolesOf(org, u) == {m.role : m \in MembershipRows(org, u)}
Owners(org) == {m \in MembershipTable : m.org_id = org /\ m.role = "owner"}
Privileged(org, u) == RolesOf(org, u) \cap {"owner", "admin"} # {}
\* what the commit of a plan leaves in the store
StoreAfter(plan) == <<norgs, MembershipsAfter(plan.write), InvitationsAfter(plan.write)>>
Rejected(plan, error) ==
    plan.result = error /\ plan.write = NoWrite /\ StoreAfter(plan) = store
InThePast(invitation) == invitation.expires_at # NoExpiry /\ invitation.expires_at < now

\* C1. Sole-owner invariant: under serialised createOrganization,
\* createInvitation, acceptInvitation, updateRole and removeMember calls every
\* organization (each gets its first owner in the step that creates it) has at
\* least one membership with role owner.
C1_SoleOwnerInvariant == \A org \in 1..norgs : Owners(org) # {}

\* C4. Role-escalation guard: an acting user whose role is admin never
\* creates an invitation with role owner and never assigns role owner; both
\* calls change nothing.  createInvitation fails with Forbidden for every
\* email; updateRole fails with Forbidden for every target that has a
\* membership in the organization, and with NotFound for a target without.
C4_RoleEscalationGuard ==
    /\ [](\A u \in Users, org \in OrgIds :
            "admin" \in RolesOf(org, u) =>
                /\ \A email \in InviteEmails, uuid \in Tokens :
                       Rejected(CreateInvitationPlan(u, org, email, "owner", uuid),
                                "Forbidden")
                /\ \A user_id \in UserIds :
                       Rejected(UpdateMemberRolePlan(u, org, user_id, "owner"),
                                IF MembershipRows(org, user_id) = {}
                                THEN "NotFound" ELSE "Forbidden"))
    /\ [][\A u \in Users, org \in OrgIds :
            "admin" \in RolesOf(org, u) =>
                /\ \A email \in InviteEmails, uuid \in Tokens :
                       CreateInvitation(u, org, email, "owner", uuid) => UNCHANGED store
                /\ \A user_id \in UserIds :
                       UpdateMemberRole(u, org, user_id, "owner") => UNCHANGED store]_vars

\* C4 as stated: Forbidden for every target, also one without a membership.
C4_ForbiddenWhateverTheTarget ==
    \A u \in Users, org \in OrgIds :
        "admin" \in RolesOf(org, u) =>
            /\ \A email \in InviteEmails, uuid \in Tokens :
                   Rejected(CreateInvitationPlan(u, org, email, "owner", uuid), "Forbidden")
            /\ \A user_id \in UserIds :
                   Rejected(UpdateMemberRolePlan(u, org, user_id, "owner"), "Forbidden")

C4_Witness ==
    \E u \in Users, org \in OrgIds, user_id \in Users :
        /\ "admin" \in RolesOf(org, u)
        /\ RolesOf(org, user_id) = {"member"}
        /\ Rejected(UpdateMemberRolePlan(u, org, user_id, "owner"), "Forbidden")
        /\ \A uuid \in Tokens :
               Rejected(CreateInvitationPlan(u, org, "new@x.com", "owner", uuid), "Forbidden")

\* C5. Authorization guard: require_role yields the membership exactly when
\* a row exists for (org, user) and its role is allowed, fails with
\* NotAMember when there is no row and with InsufficientRole when the role is
\* not allowed; createInvitation, updateRole and removeMember change the
\* store only when the acting user is owner or admin of that organization;
\* listMembers succeeds for a member of any role and fails for a non-member.
C5_AuthorizationGuard ==
    /\ [](\A u \in Users, org \in OrgIds :
            LET rows == MembershipRows(org, u)
                guarded(plan) ==
                    /\ rows = {} <=> plan.result = "NotAMember"
                    /\ (rows # {} /\ ~Privileged(org, u)) <=> plan.result = "InsufficientRole"
                    /\ ~Privileged(org, u) => StoreAfter(plan) = store
            IN  /\ \A allowed \in SUBSET Roles :
                       LET ctx == RequireRole(org, u, allowed) IN
                       /\ ctx.error = "NotAMember" <=> rows = {}
                       /\ ctx.error = "InsufficientRole" <=>
                              \E m \in rows : m.role \notin allowed
                       /\ ctx.error = "" <=>
                              rows # {} /\ \A m \in rows : m.role \in allowed
                       /\ ctx.error = "" => ctx.role \in RolesOf(org, u)
                /\ rows # {} <=> ListMembersPlan(u, org).result = "Listed"
                /\ rows = {} <=> ListMembersPlan(u, org).result = "NotAMember"
                /\ \A email \in InviteEmails, role \in PayloadRoles, uuid \in Tokens :
                       guarded(CreateInvitationPlan(u, org, email, role, uuid))
                /\ \A user_id \in UserIds, role \in PayloadRoles :
                       guarded(UpdateMemberRolePlan(u, org, user_id, role))
                /\ \A user_id \in UserIds :
                       guarded(RemoveMemberPlan(u, org, user_id)))
    /\ [][store' # store =>
            \A u \in Users, org \in OrgIds :
                /\ ~ListMembers(u, org)
                /\ ~Privileged(org, u) =>
                    /\ \A email \in InviteEmails, role \in PayloadRoles, uuid \in Tokens :
                           ~CreateInvitation(u, org, email, role, uuid)
                    /\ \A user_id \in UserIds, role \in PayloadRoles :
                           ~UpdateMemberRole(u, org, user_id, role)
                    /\ \A user_id \in UserIds :
                           ~RemoveMember(u, org, user_id)]_vars

C5_Witness ==
    \E u \in Users, v \in Users, org \in OrgIds :
        /\ RolesOf(org, u) = {"member"}
        /\ RolesOf(org, v) = {}
        /\ norgs >= org
        /\ Rejected(RemoveMemberPlan(u, org, u), "InsufficientRole")
        /\ Rejected(ListMembersPlan(v, org), "NotAMember")
        /\ ListMembersPlan(u, org).result = "Listed"

\* C6. Expiry correctness: when the invited user (the caller's email is the
\* invitation's) accepts a pending invitation whose expires_at is in the
\* past, the status becomes expired, no membership is created and the call
\* fails with Expired; an expired invitation never changes again, and every
\* later acceptInvitation on its token, by any caller, fails with
\* InvalidState (already expired).
C6_ExpiryCorrectness ==
    /\ [](\A id \in 1..Len(invitations), u \in Users :
            LET invitation == invitations[id] IN
            /\ (/\ invitation.status = "pending"
                /\ InThePast(invitation)
                /\ UserEmail[u] = invitation.email) =>
                   /\ AcceptInvitationPlan(u, invitations[id].token).result = "Expired"
                   /\ StoreAfter(AcceptInvitationPlan(u, invitations[id].token)) =
                          <<norgs, memberships,
                            [invitations EXCEPT ![id].status = "expired"]>>
            /\ invitation.status = "expired" =>
                   /\ Rejected(AcceptInvitationPlan(u, invitations[id].token), "InvalidState")
                   /\ AcceptInvitationPlan(u, invitations[id].token).detail = "expired")
    /\ [][\A id \in 1..Len(invitations) :
            LET invitation == invitations[id] IN
            /\ (invitation.status = "pending" /\ InThePast(invitation)) =>
                   \A u \in Users :
                       (UserEmail[u] = invitation.email /\ AcceptInvitation(u, invitations[id].token)) =>
                           /\ invitations' =
                                  [invitations EXCEPT ![id].status = "expired"]
                           /\ memberships' = memberships
            /\ invitation.status = "expired" => invitations'[id] = invitation]_vars

\* C6 as stated: whoever the caller is.
C6_ExpiredWhoeverCalls ==
    \A id \in 1..Len(invitations), u \in Users :
        (invitations[id].status = "pending" /\ InThePast(invitations[id])) =>
            AcceptInvitationPlan(u, invitations[id].token).result = "Expired"

C6_Witness ==
    \E id \in 1..Len(invitations), u \in Users :
        /\ invitations[id].status = "expired"
        /\ UserEmail[u] = invitations[id].email
        /\ Rejected(AcceptInvitationPlan(u, invitations[id].token), "InvalidState")

\* C7. acceptInvitation on a token whose invitation has status accepted
\* fails with InvalidState, reporting the status, for every caller and at any
\* time, and changes no membership and no invitation.
C7_AcceptedStaysAccepted ==
    /\ [](\A id \in 1..Len(invitations), u \in Users :
            invitations[id].status = "accepted" =>
                /\ Rejected(AcceptInvitationPlan(u, invitations[id].token), "InvalidState")
                /\ AcceptInvitationPlan(u, invitations[id].token).detail = "accepted")
    /\ [][\A id \in 1..Len(invitations), u \in Users :
            (invitations[id].status = "accepted" /\ AcceptInvitation(u, invitations[id].token)) =>
                UNCHANGED store]_vars

C7_Witness ==
    \E id \in 1..Len(invitations), u \in Users :
        /\ invitations[id].status = "accepted"
        /\ UserEmail[u] = invitations[id].email
        /\ MembershipRows(invitations[id].org_id, u) # {}
        /\ Rejected(AcceptInvitationPlan(u, invitations[id].token), "InvalidState")

\* C8. Invitations are email-bound: acceptInvitation on a pending invitation
\* by a user with another email fails with EmailMismatch and changes nothing
\* (the status stays pending also after the expiry); every membership that
\* acceptInvitation creates belongs to a user whose email is the invitation's.
C8_EmailBound ==
    /\ [](\A id \in 1..Len(invitations), u \in Users :
            (invitations[id].status = "pending"
                 /\ invitations[id].email # UserEmail[u]) =>
                Rejected(AcceptInvitationPlan(u, invitations[id].token), "EmailMismatch"))
    /\ [][\A token \in Tokens, u \in Users :
            AcceptInvitation(u, token) =>
                /\ (\E id \in 1..Len(invitations) :
                        /\ invitations[id].token = token
                        /\ invitations[id].status = "pending"
                        /\ invitations[id].email # UserEmail[u]) => UNCHANGED store
                /\ memberships' # memberships =>
                       \E id \in 1..Len(invitations), role \in Roles :
                           /\ invitations[id].token = token
                           /\ invitations[id].email = UserEmail[u]
                           /\ memberships' = memberships (+) SetToBag(
                                  {[org_id |-> invitations[id].org_id,
                                    user_id |-> u, role |-> role]})]_vars

C8_Witness ==
    \E id \in 1..Len(invitations), u \in Users :
        /\ invitations[id].status = "pending"
        /\ InThePast(invitations[id])
        /\ invitations[id].email # UserEmail[u]
        /\ Rejected(AcceptInvitationPlan(u, invitations[id].token), "EmailMismatch")

\* C9. Successful accept: when the token is found, the status is pending,
\* the email matches, the invitation is not expired and the caller is no
\* member yet, acceptInvitation creates exactly one membership (org =
\* invitation.org_id, user = the caller, role = invitation.role) and sets the
\* status to accepted; the role of an invitation never changes after its
\* creation.
C9_SuccessfulAccept ==
    [][\A id \in 1..Len(invitations) :
           LET invitation == invitations[id] IN
           /\ invitations'[id].role = invitation.role
           /\ \A u \in Users :
                  (/\ invitation.status = "pending"
                   /\ invitation.email = UserEmail[u]
                   /\ ~InThePast(invitation)
                   /\ MembershipRows(invitation.org_id, u) = {}
                   /\ AcceptInvitation(u, invitations[id].token)) =>
                      /\ AcceptInvitationPlan(u, invitations[id].token).result = "Joined"
                      /\ memberships' = memberships (+) SetToBag(
                             {[org_id |-> invitation.org_id, user_id |-> u,
                               role |-> invitation.role]})
                      /\ invitations' =
                             [invitations EXCEPT ![id].status = "accepted"]]_vars

C9_Witness ==
    \E id \in 1..Len(invitations), u \in Users :
        /\ invitations[id].status = "accepted"
        /\ invitations[id].role = "admin"
        /\ invitations[id].email = UserEmail[u]
        /\ memberships = SetToBag({OwnerMembership(1, 1),
               [org_id |-> invitations[id].org_id, user_id |-> u, role |-> "admin"]})

\* C10. createOrganization is atomic and makes the creator the owner: the
\* step that adds an organization adds exactly one membership, (creator,
\* owner) of the new organization, and changes no other row; no step adds an
\* organization without it.
C10_CreatorIsOwner ==
    [][norgs' # norgs =>
           /\ norgs' = norgs + 1
           /\ invitations' = invitations
           /\ \E u \in Users :
                  /\ CreateOrganization(u)
                  /\ memberships' = memberships (+) SetToBag(
                         {[org_id |-> norgs', user_id |-> u, role |-> "owner"]})
                  /\ {m \in BagToSet(memberships') : m.org_id = norgs'} =
                         {[org_id |-> norgs', user_id |-> u, role |-> "owner"]}]_vars

C10_Witness ==
    /\ norgs = 1
    /\ invitations = <<>>
    /\ \E u \in Users : memberships = SetToBag({OwnerMembership(1, u)})

\* the requests of accept_invitation among the held ones, and the worker
\* whose request commits in a step
HoldsAccept(p) == inflight[p].write.kind \in {"join", "set_status"}
Commits(p) == inflight[p] # Idle /\ inflight'[p] = Idle
StatusSet(id, status) == [invitations EXCEPT ![id].status = status]
OneMore(row) == memberships (+) SetToBag({row})

\* C2. Membership uniqueness: in every state, also of interleaved requests,
\* the memberships table holds at most one row per (organization, user)
\* pair: no row is held twice and no two rows share organization and user.
\* Two acceptInvitation requests of one user that both pass the
\* already-a-member check end with one row: the second INSERT violates
\* uq_membership_org_user and its transaction is rolled back.
C2_MembershipUniqueness ==
    \A m \in MembershipTable :
        /\ CopiesIn(m, memberships) = 1
        /\ \A m2 \in MembershipTable :
               (m2.org_id = m.org_id /\ m2.user_id = m.user_id) => m2 = m

\* a request holds the INSERT of a membership for a second, still pending
\* token of the organization while the row of the first token is committed
C2_Witness ==
    \E p \in Procs :
        /\ inflight[p].write.kind = "join"
        /\ inflight[p].seen = 1
        /\ invitations[inflight[p].write.id].status = "pending"
        /\ MembershipRows(inflight[p].write.row.org_id,
                          inflight[p].write.row.user_id) # {}

\* C3. Atomicity of accept: every acceptInvitation call on a token ends in
\* exactly one of four outcomes, committed in one step: (a) the invitation is
\* accepted and exactly one membership, the invited one, is new; (b) nothing
\* changed (every rejection, and the rollback of a failed flush); (c) the
\* invitation had expired: its status becomes expired and no membership
\* changes; (d) the caller was a member already: its status becomes accepted
\* and no membership changes.
C3_AcceptOutcome(plan) ==
    LET after == StoreAfter(plan) IN
    CASE plan.result = "Joined" ->
             \/ after = <<norgs, OneMore(plan.write.row),
                          StatusSet(plan.write.id, "accepted")>>
             \/ after = store
      [] plan.result = "Expired" ->
             after = <<norgs, memberships, StatusSet(plan.write.id, "expired")>>
      [] plan.result = "AlreadyMember" ->
             after = <<norgs, memberships, StatusSet(plan.write.id, "accepted")>>
      [] OTHER -> plan.write = NoWrite /\ after = store

C3_AcceptCommitted(plan) ==
    CASE plan.result = "Joined" ->
             \/ store' = <<norgs, OneMore(plan.write.row),
                           StatusSet(plan.write.id, "accepted")>>
             \/ store' = store
      [] plan.result = "Expired" ->
             store' = <<norgs, memberships, StatusSet(plan.write.id, "expired")>>
      [] plan.result = "AlreadyMember" ->
             store' = <<norgs, memberships, StatusSet(plan.write.id, "accepted")>>
      [] OTHER -> FALSE

C3_AtomicAccept ==
    /\ [](\A u \in Users, token \in Tokens :
              C3_AcceptOutcome(AcceptInvitationPlan(u, token)))
    /\ [][\A p \in Procs :
              (HoldsAccept(p) /\ Commits(p)) => C3_AcceptCommitted(inflight[p])]_vars

\* C3 as stated: accepted with one new membership, or no change at all
C3_TwoOutcomes(plan) ==
    \/ /\ plan.write.kind = "join"
       /\ store' = <<norgs, OneMore(plan.write.row),
                     StatusSet(plan.write.id, "accepted")>>
    \/ store' = store

C3_AcceptedWithMemberOrNothing ==
    [][\A p \in Procs :
           (HoldsAccept(p) /\ Commits(p)) => C3_TwoOutcomes(inflight[p])]_vars

\* a request holds both writes of an accept for a token that another
\* request of the same user has accepted since
C3_Witness ==
    \E p \in Procs :
        /\ inflight[p].result = "Joined"
        /\ inflight[p].seen = 1
        /\ invitations[inflight[p].write.id].status = "accepted"

\* the invitations of (org, email) whose status is pending
PendingFor(org, email) ==
    {i \in 1..Len(invitations) :
        LET invitation == invitations[i] IN
        invitation.org_id = org /\ invitation.email = email /\ invitation.status = "pending"}

\* C11. Pending-invitation uniqueness under serialised requests: every
\* (organization, email) pair has at most one invitation with status
\* pending; while a pending invitation that is not expired exists for the
\* pair, no createInvitation for it creates anything or changes the store,
\* whoever calls and whatever the role, and a caller the authorization rules
\* let through is answered with a 400 (an invitation was already sent).
C11_PendingUniqueness ==
    \A org \in OrgIds, email \in InviteEmails :
        /\ Cardinality(PendingFor(org, email)) <= 1
        /\ (\E i \in PendingFor(org, email) : ~InThePast(invitations[i])) =>
               \A u \in Users, role \in PayloadRoles, uuid \in Tokens :
                   LET plan == CreateInvitationPlan(u, org, email, role, uuid) IN
                   /\ plan.result # "Created"
                   /\ plan.write = NoWrite
                   /\ StoreAfter(plan) = store
                   /\ (Privileged(org, u) /\ ~OwnerRoleDenied(role, First(RolesOf(org, u)))) =>
                          StatusCode(plan.result) = 400
                   /\ (Privileged(org, u) /\ ValidRole(role)
                          /\ ~OwnerRoleDenied(role, First(RolesOf(org, u)))
                          /\ ExistingMemberByEmail(org, email) = {}) =>
                          plan.result = "DuplicateInvitation"

\* an owner tries to invite an email again whose earlier invitation is
\* pending and not expired, after another invitation of the organization
\* has been accepted
C11_Witness ==
    \E org \in OrgIds, u \in Users, i \in 1..Len(invitations), j \in 1..Len(invitations) :
        /\ invitations[i].status = "pending"
        /\ invitations[i].org_id = org
        /\ ~InThePast(invitations[i])
        /\ invitations[j].status = "accepted"
        /\ \A uuid \in Tokens :
               Rejected(CreateInvitationPlan(u, org, invitations[i].email, "member", uuid),
                        "DuplicateInvitation")

\* C12. Successful createInvitation: the call persists exactly one new
\* invitation, with status pending, expires_at = the time of the call + 7
\* days, the proposed role and email and a token no other invitation has,
\* and creates or changes no membership and no other invitation; the tokens
\* of the invitations are pairwise different in every state.
C12_Created(org, email, role, uuid) ==
    [org_id |-> org, email |-> email, role |-> role, token |-> uuid,
     status |-> "pending", expires_at |-> now + 7]

C12_CreateInvitationPostcondition ==
    /\ [](/\ \A i \in 1..Len(invitations), j \in 1..Len(invitations) :
                invitations[i].token = invitations[j].token => i = j
          /\ \A u \in Users, org \in OrgIds, email \in InviteEmails,
                role \in PayloadRoles, uuid \in Tokens :
                LET plan == CreateInvitationPlan(u, org, email, role, uuid) IN
                ResultAfter(plan) = "Created" =>
                    /\ StoreAfter(plan) =
                           <<norgs, memberships,
                             Append(invitations, C12_Created(org, email, role, uuid))>>
                    /\ \A i \in 1..Len(invitations) : invitations[i].token # uuid)
    /\ [][Len(invitations') # Len(invitations) =>
            /\ memberships' = memberships
            /\ \E u \in Users, org \in OrgIds, email \in InviteEmails,
                  role \in Roles, uuid \in Tokens :
                  /\ CreateInvitation(u, org, email, role, uuid)
                  /\ invitations' =
                         Append(invitations, C12_Created(org, email, role, uuid))]_vars

\* two invitations were created, at different times
C12_Witness ==
    /\ Len(invitations) = 2
    /\ invitations[1].expires_at = 7
    /\ invitations[2].expires_at = 14
    /\ invitations[2].status = "pending"
    /\ invitations[1].token # invitations[2].token
    /\ invitations[1].role # invitations[2].role

\* the memberships table with the role of the one row of (org, u) replaced
RoleReplaced(org, u, old, new) ==
    (memberships (-) SetToBag({[org_id |-> org, user_id |-> u, role |-> old]}))
        (+) SetToBag({[org_id |-> org, user_id |-> u, role |-> new]})

\* C13. Sole-owner check in updateRole: an owner who changes their own role
\* to admin or member is rejected with the sole-owner conflict (a 400) and
\* stays owner when no other membership of the organization has role owner;
\* when another owner exists the call succeeds and changes the role of the
\* acting user's membership and nothing else.
C13_SoleOwnerCheck ==
    /\ [](\A u \in Users, org \in OrgIds, role \in {"admin", "member"} :
            RolesOf(org, u) = {"owner"} =>
                LET plan == UpdateMemberRolePlan(u, org, u, role) IN
                IF \A m \in Owners(org) : m.user_id = u
                THEN Rejected(plan, "SoleOwner") /\ StatusCode(plan.result) = 400
                ELSE /\ ResultAfter(plan) = "Updated"
                     /\ StoreAfter(plan) =
                            <<norgs, RoleReplaced(org, u, "owner", role), invitations>>)
    /\ [][\A u \in Users, org \in OrgIds, role \in {"admin", "member"} :
            (RolesOf(org, u) = {"owner"} /\ UpdateMemberRole(u, org, u, role)) =>
                IF \A m \in Owners(org) : m.user_id = u
                THEN UNCHANGED store
                ELSE /\ memberships' = RoleReplaced(org, u, "owner", role)
                     /\ UNCHANGED <<norgs, invitations>>]_vars

\* the organization had two owners, one of them is a member now, and the
\* one who is left cannot demote themself
C13_Witness ==
    \E u \in Users, v \in Users, org \in OrgIds, id \in 1..Len(invitations) :
        /\ RolesOf(org, u) = {"owner"}
        /\ RolesOf(org, v) = {"member"}
        /\ invitations[id] \in [org_id : {org}, email : {UserEmail[v]}, role : {"owner"},
                                token : Tokens, status : {"accepted"}, expires_at : {7}]
        /\ Rejected(UpdateMemberRolePlan(u, org, u, "member"), "SoleOwner")

\* C14. removeMember: removing an owner is rejected with a 403 when the
\* acting user is not owner; an owner removing themself is rejected when no
\* other owner exists; an acting owner or admin removing a user without a
\* membership is rejected with NotFound; every rejection changes nothing.
\* A successful call deletes exactly the membership row of the target and
\* changes no other membership and no invitation.
C14_RemoveMemberRules ==
    /\ [](\A u \in Users, org \in OrgIds, user_id \in UserIds :
            LET plan == RemoveMemberPlan(u, org, user_id)
                target == MembershipRows(org, user_id)
            IN  /\ ("owner" \in RolesOf(org, user_id) /\ "owner" \notin RolesOf(org, u)) =>
                       /\ StatusCode(plan.result) = 403
                       /\ plan.write = NoWrite
                /\ (user_id = u /\ Owners(org) = {OwnerMembership(org, u)}) =>
                       Rejected(plan, "SoleOwner")
                /\ (Privileged(org, u) /\ target = {}) => Rejected(plan, "NotFound")
                /\ plan.write = NoWrite => StoreAfter(plan) = store
                /\ plan.write # NoWrite =>
                       /\ ResultAfter(plan) = "Removed"
                       /\ Cardinality(target) = 1
                       /\ StoreAfter(plan) =
                              <<norgs, memberships (-) SetToBag(target), invitations>>)
    /\ [][store' # store =>
            \A u \in Users, org \in OrgIds, user_id \in UserIds :
                RemoveMember(u, org, user_id) =>
                    /\ MembershipRows(org, user_id) # {}
                    /\ BagToSet(memberships') = MembershipTable \ MembershipRows(org, user_id)
                    /\ UNCHANGED <<norgs, invitations>>]_vars

\* a user who had accepted an invitation has no membership any more, and
\* the owner who is left can neither remove that user again nor themself
C14_Witness ==
    \E u \in Users, v \in Users, org \in OrgIds, id \in 1..Len(invitations) :
        /\ Owners(org) = {OwnerMembership(org, u)}
        /\ invitations[id].status = "accepted"
        /\ invitations[id].email = UserEmail[v]
        /\ MembershipRows(org, v) = {}
        /\ Rejected(RemoveMemberPlan(u, org, v), "NotFound")
        /\ Rejected(RemoveMemberPlan(u, org, u), "SoleOwner")

\* every createInvitation, updateRole and removeMember request of u on org
\* is rejected with this error and changes nothing
AllRejected(u, org, error) ==
    /\ \A email \in InviteEmails, role \in PayloadRoles, uuid \in Tokens :
           Rejected(CreateInvitationPlan(u, org, email, role, uuid), error)
    /\ \A user_id \in UserIds, role \in PayloadRoles :
           Rejected(UpdateMemberRolePlan(u, org, user_id, role), error)
    /\ \A user_id \in UserIds : Rejected(RemoveMemberPlan(u, org, user_id), error)

\* C15. No stale permissions: from the commit of the updateRole that makes
\* user u a member, or of the removeMember that deletes u's membership,
\* every createInvitation, updateRole and removeMember request of u on that
\* organization is rejected (InsufficientRole, respectively NotAMember) for
\* as long as u is a member, respectively has no membership.
C15_NoStalePermissions ==
    /\ [](\A u \in Users, org \in OrgIds :
            /\ RolesOf(org, u) = {"member"} => AllRejected(u, org, "InsufficientRole")
            /\ RolesOf(org, u) = {} => AllRejected(u, org, "NotAMember"))
    /\ [][store' # store =>
            \A u \in Users, org \in OrgIds :
                Privileged(org, u) =>
                    /\ (\E v \in Users : UpdateMemberRole(v, org, u, "member")) =>
                           (RolesOf(org, u) = {"member"}
                                /\ AllRejected(u, org, "InsufficientRole"))'
                    /\ (\E v \in Users : RemoveMember(v, org, u)) =>
                           (RolesOf(org, u) = {} /\ AllRejected(u, org, "NotAMember"))']_vars

\* an admin who joined by invitation has been made a member
C15_Witness ==
    \E u \in Users, org \in OrgIds, id \in 1..Len(invitations) :
        /\ invitations[id] \in [org_id : {org}, email : {UserEmail[u]}, role : {"admin"},
                                token : Tokens, status : {"accepted"}, expires_at : {7, 14}]
        /\ RolesOf(org, u) = {"member"}
        /\ AllRejected(u, org, "InsufficientRole")
\* C16: a failure of the activity-log write or of the invitation e-mail after
\* the primary transaction of createOrganization, createInvitation or
\* acceptInvitation has committed never reaches the caller: the request still
\* answers with its success result, and the side effects that follow the
\* failed one are still carried out (the e-mail after a failed
\* invitation.create log row, the membership.create log row after a failed
\* invitation.accept one).
C16_SideEffectFailuresAbsorbed ==
    [][\A u \in Users, fails \in CallFailures :
          /\ CreateOrganizationReturn(u, fails) => effects'.response = "Created"
          /\ \A org \in OrgIds, email \in InviteEmails, role \in PayloadRoles, uuid \in Tokens :
                 (/\ CreateInvitationReturn(u, org, email, role, uuid, fails)
                  /\ Len(invitations') = Len(invitations) + 1)
                 => /\ effects'.response = "Created"
                    /\ 2 \notin fails => effects'.mails = 1
          /\ \A token \in Tokens :
                 (/\ AcceptInvitationReturn(u, token, fails)
                  /\ \E id \in InvitationsByToken(token) :
                         /\ invitations[id].status = "pending"
                         /\ invitations'[id].status = "accepted")
                 => /\ effects'.response = "Joined"
                    /\ 2 \notin fails =>
                           \E k \in 1..Len(effects'.events) :
                               effects'.events[k] = "membership.create"]_vars

\* C17: the listing of a user's pending invitations, taken at time now, is
\* exactly the invitations addressed to that user's e-mail that are pending
\* and whose expiry is null or later than now, whatever their organization;
\* it changes no invitation and no membership, so an invitation that has
\* expired but is still pending stays pending.
C17_ListPendingInvitations ==
    /\ [](\A u \in Users :
             LET plan == ListPendingInvitationsPlan(u) IN
             /\ \A id \in 1..Len(invitations) :
                    id \in plan.rows <=>
                        /\ invitations[id].email = UserEmail[u]
                        /\ invitations[id].status = "pending"
                        /\ ~(invitations[id].expires_at # NoExpiry
                                /\ invitations[id].expires_at <= now)
             /\ plan.rows \subseteq 1..Len(invitations)
             /\ StoreAfter(plan) = store)
    /\ [][\A u \in Users : ListPendingInvitations(u) => store' = store]_vars

\* an invitation to a user that expired while pending is left out of the
\* user's listing, and is pending still
C17_Witness ==
    \E u \in Users :
        /\ StoreAfter(ListPendingInvitationsPlan(u)) = store
        /\ \E id \in 1..Len(invitations) :
               /\ invitations[id].email = UserEmail[u]
               /\ invitations[id].status = "pending"
               /\ invitations[id].expires_at < now
               /\ id \notin ListPendingInvitationsPlan(u).rows

\* C18: only an owner can change an owner's role: an updateRole whose
\* target currently holds the role owner succeeds only when the acting user
\* holds the role owner, so an admin never demotes an owner.
C18_OnlyOwnerChangesOwner ==
    \A u \in Users, org \in OrgIds, user_id \in UserIds, role \in PayloadRoles :
        LET plan == UpdateMemberRolePlan(u, org, user_id, role) IN
        ("owner" \in RolesOf(org, user_id) /\ ResultAfter(plan) = "Updated")
            => "owner" \in RolesOf(org, u)

\* a worker holds an owner's own demotion or removal, approved by the
\* sole-owner check and not committed yet
HoldsOwnExit(p, org) ==
    /\ inflight[p].write.kind \in {"set_role", "delete"}
    /\ inflight[p].result \in {"Updated", "Removed"}
    /\ inflight[p].write.row.org_id = org
    /\ inflight[p].write.row.role = "owner"
    /\ inflight[p].write.row.user_id = inflight[p].user
    /\ inflight[p].write.kind = "set_role" => inflight[p].write.role # "owner"
    /\ ~inflight[p].write.stale

OwnersIn(table, org) == {m \in BagToSet(table) : m.org_id = org /\ m.role = "owner"}

\* C19: the sole-owner rule does not survive interleaving.  While one owner's
\* own demotion or removal has passed the sole-owner check and is not yet
\* committed, another owner of the organization passes the same check for
\* their own demotion and removal; and a request that passed the check
\* commits as planned when its user has meanwhile become the only owner,
\* which leaves an existing organization without any owner.
C19_SoleOwnerRace ==
    /\ [](\A p \in Procs, org \in OrgIds :
             /\ \A u \in Users :
                    (/\ HoldsOwnExit(p, org)
                     /\ inflight[p].write.row \in MembershipTable
                     /\ u # inflight[p].user
                     /\ "owner" \in RolesOf(org, u))
                    => /\ RemoveMemberPlan(u, org, u).result = "Removed"
                       /\ \A role \in {"admin", "member"} :
                              UpdateMemberRolePlan(u, org, u, role).result = "Updated"
             /\ (HoldsOwnExit(p, org) /\ OwnersIn(memberships, org) = {inflight[p].write.row})
                    => /\ ResultAfter(inflight[p]) = inflight[p].result
                       /\ OwnersIn(MembershipsAfter(inflight[p].write), org) = {})
    /\ [][\A p \in Procs, org \in OrgIds :
              (/\ HoldsOwnExit(p, org)
               /\ OwnersIn(memberships, org) = {inflight[p].write.row}
               /\ CommitRequest(p))
              => (org \in 1..norgs' /\ OwnersIn(memberships', org) = {})]_vars

\* a request that passed the sole-owner check is held while the other owner's
\* exit has been committed: its user is the only owner left, and its commit
\* is not held back
C19_Witness ==
    \E p \in Procs, org \in OrgIds :
        /\ HoldsOwnExit(p, org)
        /\ OwnersIn(memberships, org) = {inflight[p].write.row}
        /\ inflight[p].seen = 1
        /\ \A q \in Procs \ {p} : inflight[q] = Idle

\* a worker holds a createInvitation for (org, email) that passed the
\* duplicate check and is not committed yet
HoldsInvitation(p, org, email) ==
    /\ inflight[p].write.kind = "add_invitation"
    /\ inflight[p].result = "Created"
    /\ inflight[p].write.row.org_id = org
    /\ inflight[p].write.row.email = email

\* C20: the duplicate check of createInvitation is a query before the insert.
\* While one createInvitation for (organization, e-mail) has passed it and is
\* not yet committed, a second one for the same pair passes it too, and both
\* commit, which leaves two pending invitations for the pair.  A second
\* pending invitation only ever appears through a request that another
\* request's commit overtook between its check and its own commit, never
\* through a request that runs alone from check to commit.
C20_DuplicateInvitationRace ==
    /\ [](\A p \in Procs, org \in OrgIds, email \in InviteEmails :
             /\ (HoldsInvitation(p, org, email) /\ PendingFor(org, email) = {}) =>
                    \A u \in Users, role \in Roles, uuid \in Tokens :
                        (/\ Privileged(org, u)
                         /\ ~OwnerRoleDenied(role, First(RolesOf(org, u)))
                         /\ ExistingMemberByEmail(org, email) = {})
                        => CreateInvitationPlan(u, org, email, role, uuid).result = "Created"
             /\ (/\ HoldsInvitation(p, org, email)
                 /\ PendingFor(org, email) # {}
                 /\ InvitationsByToken(inflight[p].write.row.token) = {})
                    => ResultAfter(inflight[p]) = "Created")
    /\ [][\A org \in OrgIds, email \in InviteEmails :
              /\ \A p \in Procs :
                     (/\ HoldsInvitation(p, org, email)
                      /\ Cardinality(PendingFor(org, email)) = 1
                      /\ InvitationsByToken(inflight[p].write.row.token) = {}
                      /\ CommitRequest(p))
                     => Cardinality(PendingFor(org, email))' = 2
              /\ (Cardinality(PendingFor(org, email)) <= 1
                     /\ Cardinality(PendingFor(org, email))' > 1)
                     => \E p \in Procs :
                            /\ HoldsInvitation(p, org, email)
                            /\ inflight[p].seen >= 1
                            /\ Commits(p)]_vars

\* two pending invitations of one organization to one e-mail address
C20_Witness ==
    \E org \in OrgIds, email \in InviteEmails :
        Cardinality(PendingFor(org, email)) = 2

\* C21: whatever the interleaving of the reads and the commits of concurrent
\* acceptInvitation requests and of the clock, the status of an invitation
\* only ever changes from pending to accepted or from pending to expired, and
\* an accepted or expired invitation keeps its status for good.
C21_InvitationStateMachine ==
    [][\A id \in 1..Len(invitations) :
          invitations'[id].status # invitations[id].status
              => /\ invitations[id].status = "pending"
                 /\ invitations'[id].status \in {"accepted", "expired"}]_vars

\* C22: the sole-owner rejection of updateRole is for a new role other than
\* owner only: the only owner of an organization who sets their own role to
\* owner is not rejected as sole owner; the call succeeds and the role stays
\* owner.
C22_SoleOwnerKeepsOwner ==
    \A u \in Users, org \in OrgIds :
        (RolesOf(org, u) = {"owner"} /\ \A m \in Owners(org) : m.user_id = u)
            => LET plan == UpdateMemberRolePlan(u, org, u, "owner") IN
               /\ plan.result # "SoleOwner"
               /\ ResultAfter(plan) = "Updated"
               /\ StoreAfter(plan) = store

\* C23: once the expiry of a pending invitation for (organization, e-mail)
\* has passed, an owner or admin can create a fresh invitation for the pair,
\* whether or not the old one was ever accepted or marked expired: the
\* duplicate check rejects only on a pending invitation that is not expired.
C23_ReinvitationAfterExpiry ==
    \A u \in Users, org \in OrgIds, email \in InviteEmails, role \in Roles, uuid \in Tokens :
        (/\ Privileged(org, u)
         /\ ~OwnerRoleDenied(role, First(RolesOf(org, u)))
         /\ ExistingMemberByEmail(org, email) = {}
         /\ InvitationsByToken(uuid) = {}
         /\ PendingFor(org, email) # {}
         /\ \A i \in PendingFor(org, email) : invitations[i].expires_at < now)
        => LET plan == CreateInvitationPlan(u, org, email, role, uuid) IN
           /\ plan.result # "DuplicateInvitation"
           /\ ResultAfter(plan) = "Created"

\* C24: removals are audited: when a removeMember has deleted a membership
\* row, an activity-log event of that removal has been handed to the activity
\* log by the time the request returns.
C24_RemovalsAudited ==
    [][\A u \in Users, org \in OrgIds, user_id \in UserIds :
          (/\ RemoveMemberReturn(u, org, user_id)
           /\ MembershipRows(org, user_id) # {}
           /\ memberships' = memberships (-) SetToBag({First(MembershipRows(org, user_id))}))
          => \E k \in 1..Len(effects'.events) :
                 effects'.events[k] = "membership.delete"]_vars

\* C25: the activity-log events and the invitation e-mail of
\* createOrganization, createInvitation and acceptInvitation are dispatched
\* only by a request whose primary transaction has committed; a request that
\* is rejected dispatches no event and no e-mail; an acceptInvitation that
\* answers with the new membership has dispatched the invitation.accept
\* event and then the membership.create event, and the second is never
\* dispatched without the first before it.
C25_SideEffectOrdering ==
    [][/\ ~(/\ norgs' = norgs + 1
            /\ effects'.events \in {<<>>, <<"organization.create">>}
            /\ effects'.response = "Created" => effects'.events = <<"organization.create">>)
          => \A u \in Users, fails \in CallFailures : ~CreateOrganizationReturn(u, fails)
       /\ ~(IF Len(invitations') = Len(invitations) + 1
            THEN /\ effects'.events \in {<<>>, <<"invitation.create">>}
                 /\ effects'.mails <= 1
                 /\ effects'.response = "Created" => effects'.events = <<"invitation.create">>
            ELSE /\ effects'.response # "Created"
                 /\ effects'.events = <<>>
                 /\ effects'.mails = 0)
          => \A u \in Users, org \in OrgIds, email \in InviteEmails, role \in PayloadRoles,
                uuid \in Tokens, fails \in CallFailures :
                    ~CreateInvitationReturn(u, org, email, role, uuid, fails)
       /\ ~(/\ effects'.mails = 0
            /\ IF BagCardinality(memberships') = BagCardinality(memberships) + 1
               THEN /\ effects'.events \in
                           {<<>>, <<"invitation.accept">>,
                            <<"invitation.accept", "membership.create">>}
                    /\ effects'.response = "Joined" =>
                           effects'.events = <<"invitation.accept", "membership.create">>
               ELSE /\ effects'.response # "Joined"
                    /\ effects'.events = <<>>)
          => \A u \in Users, token \in Tokens, fails \in CallFailures :
                 ~AcceptInvitationReturn(u, token, fails)]_vars

\* an acceptInvitation has answered with the new membership
C25_Witness ==
    /\ effects.response = "Joined"
    /\ effects.events = <<"invitation.accept", "membership.create">>
    /\ \E id \in 1..Len(invitations) : invitations[id].status = "accepted"

\* C26: when a user who already holds a membership in the organization of a
\* pending invitation that is addressed to their e-mail and not expired
\* accepts it, the call fails with AlreadyMember, the invitation becomes
\* accepted, no membership is created and the memberships (the user's role
\* among them) stay as they are, whatever role the invitation carries.
C26_AlreadyMemberPath ==
    /\ [](\A u \in Users, id \in 1..Len(invitations) :
             (/\ invitations[id].status = "pending"
              /\ invitations[id].email = UserEmail[u]
              /\ invitations[id].expires_at >= now
              /\ RolesOf(invitations[id].org_id, u) # {})
             => LET plan == AcceptInvitationPlan(u, invitations[id].token) IN
                /\ plan.result = "AlreadyMember"
                /\ ResultAfter(plan) = "AlreadyMember"
                /\ StatusCode(plan.result) = 400
                /\ StoreAfter(plan) = <<norgs, memberships, StatusSet(id, "accepted")>>)
    /\ [][\A p \in Procs :
              (inflight[p].result = "AlreadyMember" /\ CommitRequest(p))
              => /\ memberships' = memberships
                 /\ invitations' = StatusSet(inflight[p].write.id, "accepted")]_vars

\* a member holds a pending invitation to their organization that carries
\* another role than the one they have
C26_Witness ==
    \E u \in Users, id \in 1..Len(invitations) :
        /\ invitations[id].status = "pending"
        /\ invitations[id].email = UserEmail[u]
        /\ invitations[id].expires_at >= now
        /\ RolesOf(invitations[id].org_id, u) # {}
        /\ invitations[id].role \notin RolesOf(invitations[id].org_id, u)
        /\ AcceptInvitationPlan(u, invitations[id].token).result = "AlreadyMember"

\* the address belongs to a registered user who holds a membership in org
MemberAddress(org, email) ==
    \E v \in Users : UserEmail[v] = email /\ RolesOf(org, v) # {}

\* C27: createInvitation to the e-mail of a registered user who holds a
\* membership in the organization is rejected with a 400 and persists no
\* invitation; the e-mail of an unregistered user or of a registered user
\* without a membership in the organization is not rejected by this check.
C27_ExistingMemberRejected ==
    /\ [](\A u \in Users, org \in OrgIds, email \in InviteEmails, role \in PayloadRoles,
             uuid \in Tokens :
             LET plan == CreateInvitationPlan(u, org, email, role, uuid) IN
             IF MemberAddress(org, email)
             THEN /\ plan.result # "Created"
                  /\ plan.write = NoWrite
                  /\ StoreAfter(plan) = store
                  /\ (Privileged(org, u) /\ ~OwnerRoleDenied(role, First(RolesOf(org, u))))
                         => StatusCode(plan.result) = 400
                  /\ (Privileged(org, u) /\ ValidRole(role)
                         /\ ~OwnerRoleDenied(role, First(RolesOf(org, u))))
                         => plan.result = "AlreadyMember"
             ELSE plan.result # "AlreadyMember")
    /\ [][invitations' # invitations =>
              \A u \in Users, org \in OrgIds, email \in InviteEmails, role \in PayloadRoles,
                 uuid \in Tokens :
                  MemberAddress(org, email) => ~CreateInvitation(u, org, email, role, uuid)]_vars

\* an invited user has joined, and the owner's next invitation to the same
\* address is turned down
C27_Witness ==
    \E u \in Users, v \in Users, org \in OrgIds :
        /\ u # v
        /\ RolesOf(org, u) = {"owner"}
        /\ RolesOf(org, v) # {}
        /\ \E id \in 1..Len(invitations) :
               invitations[id].email = UserEmail[v] /\ invitations[id].status = "accepted"
        /\ Rejected(CreateInvitationPlan(u, org, UserEmail[v], "member", Len(invitations) + 1),
                    "AlreadyMember")

\* C28: the expiry tests agree: at every instant and for every pending
\* invitation, acceptInvitation by the invited user treats the invitation as
\* not expired exactly when the listing of that user's pending invitations
\* at the same instant returns it, the instant of the expiry included.
C28_ExpiryPredicatesAgree ==
    \A u \in Users, id \in 1..Len(invitations) :
        (invitations[id].status = "pending" /\ invitations[id].email = UserEmail[u])
        => (AcceptInvitationPlan(u, invitations[id].token).result # "Expired"
                <=> id \in ListPendingInvitationsPlan(u).rows)

\* the step adds a membership row with role owner
OwnerAdded ==
    \E m \in BagToSet(memberships') :
        m.role = "owner" /\ CopiesIn(m, memberships') > CopiesIn(m, memberships)

\* the step adds an invitation that carries the role owner
OwnerInvitationAdded ==
    /\ Len(invitations') = Len(invitations) + 1
    /\ invitations'[Len(invitations')].role = "owner"

\* C29: owner provenance under serialised requests.  A membership with role
\* owner only ever appears through createOrganization, through an updateRole
\* by a user who holds the role owner at that moment, or through the
\* acceptance of an invitation that carries the role owner; an invitation
\* that carries the role owner is only ever created by a user who holds the
\* role owner at that moment, and no invitation ever changes its role.  So
\* requests of admins and members alone never add an owner.
C29_OwnerProvenance ==
    [][/\ OwnerAdded =>
              /\ \/ \E u \in Users : CreateOrganization(u)
                 \/ \E u \in Users, org \in OrgIds, user_id \in UserIds :
                        "owner" \in RolesOf(org, u) /\ UpdateMemberRole(u, org, user_id, "owner")
                 \/ \E u \in Users, id \in 1..Len(invitations) :
                        /\ invitations[id].role = "owner"
                        /\ invitations[id].status = "pending"
                        /\ AcceptInvitation(u, invitations[id].token)
              /\ \A u \in Users, org \in OrgIds :
                     "owner" \notin RolesOf(org, u) =>
                         /\ \A user_id \in UserIds, role \in PayloadRoles :
                                ~UpdateMemberRole(u, org, user_id, role)
                         /\ \A email \in InviteEmails, role \in PayloadRoles, uuid \in Tokens :
                                ~CreateInvitation(u, org, email, role, uuid)
       /\ OwnerInvitationAdded =>
              /\ \E u \in Users, org \in OrgIds, email \in InviteEmails, uuid \in Tokens :
                     "owner" \in RolesOf(org, u) /\ CreateInvitation(u, org, email, "owner", uuid)
              /\ \A u \in Users, org \in OrgIds :
                     "owner" \notin RolesOf(org, u) =>
                         \A email \in InviteEmails, role \in PayloadRoles, uuid \in Tokens :
                             ~CreateInvitation(u, org, email, role, uuid)
       /\ \A id \in 1..Len(invitations) : invitations'[id].role = invitations[id].role]_vars

\* an organization has a second owner, who came in by an invitation that
\* carries the role owner, and an admin
C29_Witness ==
    \E u \in Users, v \in Users, org \in OrgIds, id \in 1..Len(invitations) :
        /\ u # v
        /\ RolesOf(org, u) = {"owner"}
        /\ RolesOf(org, v) = {"owner"}
        /\ invitations[id].email = UserEmail[v]
        /\ invitations[id].role = "owner"
        /\ invitations[id].status = "accepted"

\* C30: in every reachable state the role of every membership and of every
\* invitation is owner, admin or member; a createInvitation or an updateRole
\* by an owner or admin with a role outside that set is rejected as an
\* invalid role, and whoever sends such a role, no invitation and no
\* membership changes.
C30_RoleDomain ==
    /\ [](/\ \A m \in MembershipTable : m.role \in {"owner", "admin", "member"}
           /\ \A id \in 1..Len(invitations) :
                  invitations[id].role \in {"owner", "admin", "member"}
           /\ \A u \in Users, org \in OrgIds, role \in PayloadRoles :
                  role \notin {"owner", "admin", "member"} =>
                      /\ \A email \in InviteEmails, uuid \in Tokens :
                             LET plan == CreateInvitationPlan(u, org, email, role, uuid) IN
                             /\ plan.write = NoWrite
                             /\ StoreAfter(plan) = store
                             /\ StatusCode(plan.result) \in {400, 403, 404}
                             /\ Privileged(org, u) => Rejected(plan, "InvalidRole")
                      /\ \A user_id \in UserIds :
                             LET plan == UpdateMemberRolePlan(u, org, user_id, role) IN
                             /\ plan.write = NoWrite
                             /\ StoreAfter(plan) = store
                             /\ StatusCode(plan.result) \in {400, 403, 404}
                             /\ Privileged(org, u) => Rejected(plan, "InvalidRole"))
    /\ [][store' # store =>
              \A u \in Users, org \in OrgIds, role \in PayloadRoles \ {"owner", "admin", "member"} :
                  /\ \A email \in InviteEmails, uuid \in Tokens :
                         ~CreateInvitation(u, org, email, role, uuid)
                  /\ \A user_id \in UserIds : ~UpdateMemberRole(u, org, user_id, role)]_vars

\* an admin who came in by invitation sends a role that does not exist, to
\* invite an unregistered address and to change the owner's role
C30_Witness ==
    \E u \in Users, v \in Users, org \in OrgIds :
        /\ RolesOf(org, u) = {"admin"}
        /\ RolesOf(org, v) = {"owner"}
        /\ Len(invitations) < MaxInvitations
        /\ Rejected(CreateInvitationPlan(u, org, "new@x.com", "guest", Len(invitations) + 1),
                    "InvalidRole")
        /\ Rejected(UpdateMemberRolePlan(u, org, v, "guest"), "InvalidRole")

====
